---- MODULE Spec2Model ----
(***************************************************************************)
(* Model of bk, a terminal EPUB reader (src/src/main.rs).                  *)
(*                                                                         *)
(* These parts of the program are modelled:                                *)
(*   - wrap, the greedy line wrapper, as a recursive operator that scans   *)
(*     the text exactly as the for-loop does (WrapSpec applies it to       *)
(*     every text of a bounded set);                                       *)
(*   - Bk, the reader state and the event loop of Bk::run with its         *)
(*     handlers match_read, match_nav, match_search, the scroll and search *)
(*     helpers, get_chapter and the render functions that index the        *)
(*     buffers (Spec);                                                     *)
(*   - Epub::get_toc, as an operator over the parsed package document and  *)
(*     table-of-contents document (TocSpec);                               *)
(*   - Epub::render, the traversal of a chapter's markup tree, started as  *)
(*     get_chapter starts it (RenderSpec).                                 *)
(*                                                                         *)
(* Strings are sequences of one-character strings.  Offsets are 0-based    *)
(* as in the source; SubSeq(t, a + 1, b) is the Rust slice &t[a..b].       *)
(* Texts are ASCII, so byte offsets and character counts coincide.         *)
(* A Rust panic (slice out of range, arithmetic overflow with overflow     *)
(* checks on) ends the process: status becomes "panicked".                 *)
(***************************************************************************)
EXTENDS Integers, Sequences, FiniteSets, TLC

VARIABLES
    mode,            \* Bk.mode: "Read", "Help", "Nav", "Search"
    cols,            \* Bk.cols
    rows,            \* Bk.rows
    chapter,         \* Bk.chapter: the wrapped lines of the loaded chapter
    chapter_idx,     \* Bk.chapter_idx (0-based)
    nav_idx,         \* Bk.nav_idx (0-based)
    nav_top,         \* Bk.nav_top (0-based)
    pos,             \* Bk.pos (0-based)
    search,          \* Bk.search
    epub,            \* the archive: per chapter, its logical lines
    overflow_checks, \* build profile: TRUE panics on overflow, FALSE wraps
    status,          \* "running", "exited" (run returned), "panicked"
    text,            \* argument of the wrap call under test
    width,           \* argument of the wrap call under test
    wrapped,         \* result of the wrap call under test
    wpc,             \* "call" before the wrap call, "done" after
    package,         \* the archive files read by the get_toc call under test
    toc,             \* result of the get_toc call under test
    tpc,             \* "call" before the get_toc call, "done" after
    body,            \* the body element of the chapter rendered under test
    rendered,        \* the accumulator Epub::render leaves for that body
    rpc              \* "call" before the render call, "done" after

bkvars == <<mode, cols, rows, chapter, chapter_idx, nav_idx, nav_top, pos,
            search, epub, overflow_checks, status>>
wrapvars == <<text, width, wrapped, wpc>>
tocvars == <<package, toc, tpc>>
rendervars == <<body, rendered, rpc>>
vars == <<mode, cols, rows, chapter, chapter_idx, nav_idx, nav_top, pos,
          search, epub, overflow_checks, status, text, width, wrapped, wpc,
          package, toc, tpc, body, rendered, rpc>>

(***************************************************************************)
(* Bounds                                                                  *)
(***************************************************************************)
MaxLen == 6          \* longest generated text handed to wrap
MaxWidth == 4        \* largest generated width handed to wrap
MaxRows == 2         \* largest terminal height
MaxSearch == 2       \* longest search buffer typed
MaxCols == 8         \* widest terminal
MaxSpine == 3        \* most itemrefs in a spine
MaxToc == 2          \* most entries in a table of contents
MaxKids == 1         \* most children of an element inside the body
MaxBodyKids == 2     \* most children of the body element

Alphabet == {"a", "b", " "}

(***************************************************************************)
(* Program constants                                                       *)
(***************************************************************************)
pad == 3             \* Bk::new(epub, &pos, 3)
U16 == 65536         \* cols, pad and width are u16

(***************************************************************************)
(* wrap                                                                    *)
(***************************************************************************)
WrapResult(p, ls) == [panic |-> p, lines |-> ls]

\* The body of the for-loop of wrap from character offset i on, followed by
\* the final push.  st holds the loop's locals start, space, line, word and
\* the vector wrapped.
RECURSIVE wrap_scan(_, _, _, _)
wrap_scan(t, w, i, st) ==
    IF i = Len(t)
    THEN WrapResult(FALSE, Append(st.wrapped, SubSeq(t, st.start + 1, Len(t))))
    ELSE LET c == t[i + 1]
             space == IF c = " " THEN i ELSE st.space
             word == IF c = " " THEN 0 ELSE st.word + 1
         IN  IF st.line = w
             THEN IF st.start > space
                  THEN WrapResult(TRUE, st.wrapped)  \* &text[start..space], start > space
                  ELSE wrap_scan(t, w, i + 1,
                         [start |-> space + 1, space |-> space,
                          line |-> word, word |-> word,
                          wrapped |-> Append(st.wrapped,
                                             SubSeq(t, st.start + 1, space))])
             ELSE wrap_scan(t, w, i + 1,
                    [start |-> st.start, space |-> space,
                     line |-> st.line + 1, word |-> word,
                     wrapped |-> st.wrapped])

wrap_locals == [start |-> 0, space |-> 0, line |-> 0, word |-> 0, wrapped |-> <<>>]

\* wrap breaking one character early (line == width - 1)
wrap_narrow(t, w) == wrap_scan(t, w - 1, 0, wrap_locals)

\* wrap breaking one character late (line == width + 1)
wrap_wide(t, w) == wrap_scan(t, w + 1, 0, wrap_locals)

wrap(t, w) == wrap_scan(t, w, 0, wrap_locals)

(***************************************************************************)
(* Inputs of the wrap call under test                                      *)
(***************************************************************************)
QuickBrownFox ==
    <<"t","h","e"," ","q","u","i","c","k"," ","b","r","o","w","n"," ","f","o","x">>
Supercali ==
    <<"s","u","p","e","r","c","a","l","i","f","r","a","g","i","l","i","s","t","i","c">>
SupercaliTest == Supercali \o <<" ","t","e","s","t">>

RECURSIVE SeqsUpTo(_, _)
SeqsUpTo(S, n) ==
    IF n = 0 THEN {<<>>}
    ELSE LET shorter == SeqsUpTo(S, n - 1)
         IN  shorter \cup {Append(s, x) : s \in shorter, x \in S}

Texts == SeqsUpTo(Alphabet, MaxLen) \cup {QuickBrownFox, SupercaliTest}
Widths == (1..MaxWidth) \cup {5, 10}

(***************************************************************************)
(* The archive and the terminal                                            *)
(***************************************************************************)
\* Three books, each a sequence of chapters, each chapter the sequence of its
\* logical lines (what Epub::render accumulates, each line concatenated).
\* A chapter without text (a cover page holding only an image) has no lines.
\* No word is longer than two characters, the narrowest width of Cols.
Book1 ==
    << << <<"a","b"," ","a"," ","b">>, <<"b">> >>,
       << >>,
       << <<"a"," ","a","b">>, << >>, <<"b","a"," ","b"," ","a">> >> >>
Book2 ==
    << << <<"b">> >>,
       << <<"a","b"," ","a","b">>, <<"a">> >> >>
Book3 ==
    << << <<"a"," ","b"," ","a"," ","b"," ","a">>, <<"a","b">> >>,
       << <<"b">>, << >>, <<"a"," ","a">> >> >>
Books == {Book1, Book2, Book3}

\* Column counts reported by terminal::size and Event::Resize: one narrower
\* than the two paddings, the others leaving a width of at least two.
Cols == {2 * pad - 1} \cup ((2 * pad + 2)..MaxCols)
Rows == 1..MaxRows

\* KeyCode values: every key a handler names, Backspace and Char('a') for
\* the keys no handler names.
NamedKeys == {"Esc", "Tab", "F1", "Enter", "End", "Home", "Up", "Down",
              "Left", "Right", "PageUp", "PageDown", "Backspace"}
CharKeys == {"q", "?", "/", "N", "n", "G", "g", "d", "u", "k", "b", "h",
             "j", "f", "l", " ", "a"}
Keys == NamedKeys \cup CharKeys
\* The characters typed while in Search mode (KeyCode::Char(c) is handled
\* alike for every c).
SearchChars == {"q", "a"}
QuitKeys == {"Esc", "q"}
ScrollDownKeys == {"d", "Down", "j", "Right", "PageDown", "f", "l", " "}
ScrollUpKeys == {"u", "Up", "k", "Left", "PageUp", "b", "h"}
NavConfirmKeys == {"Enter", "Tab", "l"}
NavCancelKeys == {"Esc", "h", "q"}
NavMoveKeys == {"Down", "j", "Up", "k", "Home", "g", "End", "G"}

(***************************************************************************)
(* Epub::get_toc                                                           *)
(***************************************************************************)
\* A path is the sequence of its components; a leading "/" component is the
\* root of an absolute path.  Path::parent drops the last component and is
\* None for the empty path.
parent(p) == SubSeq(p, 1, Len(p) - 1)

\* Path::join: an absolute argument replaces the base.
join(base, p) == IF p # <<>> /\ p[1] = "/" THEN p ELSE base \o p

\* usize::to_string
Digits == <<"0", "1", "2", "3", "4", "5", "6", "7", "8", "9">>
RECURSIVE to_string(_)
to_string(n) ==
    IF n < 10 THEN <<Digits[n + 1]>>
    ELSE to_string(n \div 10) \o <<Digits[(n % 10) + 1]>>

\* Iterator<&str>::collect::<String>()
RECURSIVE concat(_)
concat(ss) == IF ss = <<>> THEN <<>> ELSE Head(ss) \o concat(Tail(ss))

\* HashMap as a function on its keys.
insert(map, k, v) ==
    [x \in (DOMAIN map) \cup {k} |-> IF x = k THEN v ELSE map[x]]
remove(map, k) == [x \in (DOMAIN map) \ {k} |-> map[x]]
EmptyMap == [x \in {} |-> <<>>]

\* The manifest block: every item inserts id -> href.
RECURSIVE manifest_map(_, _)
manifest_map(items, map) ==
    IF items = <<>> THEN map
    ELSE manifest_map(Tail(items), insert(map, Head(items).id, Head(items).href))

\* The spine block: every itemref removes its idref from the manifest and
\* yields the href; unwrap panics when the idref is not (or no longer) there.
RECURSIVE spine_paths(_, _, _)
spine_paths(spine, manifest, paths) ==
    IF spine = <<>> THEN [panic |-> FALSE, paths |-> paths, manifest |-> manifest]
    ELSE IF Head(spine) \notin DOMAIN manifest
    THEN [panic |-> TRUE, paths |-> paths, manifest |-> manifest]
    ELSE spine_paths(Tail(spine), remove(manifest, Head(spine)),
                     Append(paths, manifest[Head(spine)]))

\* Version 3.0: every <a> under <nav> inserts href -> its text nodes joined.
RECURSIVE nav_toc(_, _)
nav_toc(links, map) ==
    IF links = <<>> THEN [panic |-> FALSE, map |-> map]
    ELSE nav_toc(Tail(links),
                 insert(map, Head(links).target, concat(Head(links).texts)))

\* Legacy: every navPoint inserts content@src -> the text of its first
\* <text> element; unwrap panics when there is none.
RECURSIVE ncx_toc(_, _)
ncx_toc(points, map) ==
    IF points = <<>> THEN [panic |-> FALSE, map |-> map]
    ELSE IF Head(points).texts = <<>> THEN [panic |-> TRUE, map |-> map]
    ELSE ncx_toc(Tail(points),
                 insert(map, Head(points).target, Head(points).texts[1]))

\* paths.into_iter().enumerate().map(..): the title is removed from the toc
\* map, or is the position as a decimal string.
RECURSIVE chapters(_, _, _, _, _)
chapters(paths, i, map, rootdir, out) ==
    IF i = Len(paths) THEN out
    ELSE LET path == paths[i + 1]
             hit == path \in DOMAIN map
         IN  chapters(paths, i + 1,
                      IF hit THEN remove(map, path) ELSE map,
                      rootdir,
                      Append(out, [title |-> IF hit THEN map[path]
                                             ELSE to_string(i),
                                   path |-> join(rootdir, path)]))

TocResult(p, cs) == [panic |-> p, chapters |-> cs]

\* get_toc that lists the chapters in manifest order, not spine order
get_toc_manifest_order(pkg) ==
    LET ms == SelectSeq(pkg.manifest, LAMBDA it :
                  \E k \in 1..Len(pkg.spine) : pkg.spine[k] = it.id)
    IN  TocResult(FALSE,
                  [k \in 1..Len(ms) |->
                      [title |-> to_string(k - 1),
                       path |-> join(parent(pkg.full_path), ms[k].href)]])

\* get_toc that titles every chapter with its position
get_toc_ordinals(pkg) ==
    LET sp == spine_paths(pkg.spine, manifest_map(pkg.manifest, EmptyMap), <<>>)
    IN  IF sp.panic THEN TocResult(TRUE, <<>>)
        ELSE TocResult(FALSE, chapters(sp.paths, 0, EmptyMap,
                                       parent(pkg.full_path), <<>>))

get_toc(pkg) ==
    LET manifest == manifest_map(pkg.manifest, EmptyMap)
        sp == spine_paths(pkg.spine, manifest, <<>>)
        navs == SelectSeq(pkg.manifest, LAMBDA it : it.properties = "nav")
        tm == IF pkg.version = "3.0" THEN nav_toc(pkg.tocdoc, EmptyMap)
              ELSE ncx_toc(pkg.tocdoc, EmptyMap)
    IN  IF pkg.full_path = <<>> THEN TocResult(TRUE, <<>>)    \* parent()
        ELSE IF sp.panic THEN TocResult(TRUE, <<>>)           \* remove(idref)
        ELSE IF pkg.version = "3.0" /\ navs = <<>>
        THEN TocResult(TRUE, <<>>)                            \* find(nav)
        ELSE IF pkg.version # "3.0" /\ "ncx" \notin DOMAIN sp.manifest
        THEN TocResult(TRUE, <<>>)                            \* get("ncx")
        ELSE IF tm.panic THEN TocResult(TRUE, <<>>)
        ELSE TocResult(FALSE, chapters(sp.paths, 0, tm.map,
                                       parent(pkg.full_path), <<>>))

(***************************************************************************)
(* Inputs of the get_toc call under test                                   *)
(***************************************************************************)
Intro == <<"I", "n", "t", "r", "o">>
Part == <<"P", "a", "r", "t">>
Two == <<" ", "2">>

c1_xhtml == <<"c1.xhtml">>
c2_xhtml == <<"c2.xhtml">>
c3_xhtml == <<"text", "c3.xhtml">>

Item(id, href, properties) ==
    [id |-> id, href |-> href, properties |-> properties]

\* The manifest block: three chapters, a second item for the first chapter's
\* file, the navigation document and the NCX.
Manifest ==
    << Item("c1", c1_xhtml, ""), Item("c2", c2_xhtml, ""),
       Item("c3", c3_xhtml, ""), Item("c4", c1_xhtml, ""),
       Item("nav", <<"nav.xhtml">>, "nav"), Item("ncx", <<"toc.ncx">>, "") >>

\* idref values: the manifest's chapter items, its navigation document, its
\* NCX, and one that no manifest item carries.
Idrefs == {"c1", "c2", "c3", "c4", "nav", "ncx", "cX"}

\* The entries of a table of contents (<a> or navPoint): the target as
\* written and the text nodes (or <text> elements) below the entry.
TocEntry(target, texts) == [target |-> target, texts |-> texts]
TocEntries ==
    { TocEntry(c1_xhtml, <<Intro>>),
      TocEntry(c1_xhtml, <<Part, Two>>),
      TocEntry(<<"notes.xhtml">>, <<Part>>) }

Package(full_path, version, spine, tocdoc) ==
    [full_path |-> full_path, version |-> version, manifest |-> Manifest,
     spine |-> spine, tocdoc |-> tocdoc]

\* full-path of the rootfile in container.xml; the version attribute of
\* the package element.
FullPaths == {<<"content.opf">>, <<"OEBPS", "content.opf">>}
Versions == {"3.0", "2.0"}

(***************************************************************************)
(* Epub::render                                                            *)
(***************************************************************************)
\* roxmltree nodes: text nodes and elements.
Text(s) == [kind |-> "text", tag |-> "", text |-> s, children |-> <<>>]
Elem(tag, kids) == [kind |-> "elem", tag |-> tag, text |-> <<>>, children |-> kids]

Whitespace == {" ", "\n", "\t"}
\* text.trim().is_empty()
trim_is_empty(s) == \A k \in 1..Len(s) : s[k] \in Whitespace

Bold == <<"\\x1b", "[", "1", "m">>
Reset == <<"\\x1b", "[", "0", "m">>
Bullet == <<"-", " ">>

\* The accumulator: the lines pushed so far, each the sequence of its
\* fragments, or the panic of last_mut().unwrap() on an empty accumulator.
Acc(p, ls) == [panic |-> p, lines |-> ls]
push(a, line) == IF a.panic THEN a ELSE Acc(FALSE, Append(a.lines, line))

RECURSIVE Epub_render(_, _)
RECURSIVE render_children(_, _)
render_children(a, kids) ==
    IF kids = <<>> \/ a.panic THEN a
    ELSE render_children(Epub_render(a, Head(kids)), Tail(kids))

Epub_render(a, n) ==
    IF a.panic THEN a
    ELSE IF n.kind = "text"
    THEN IF trim_is_empty(n.text) THEN a
         ELSE IF a.lines = <<>> THEN Acc(TRUE, a.lines)
         ELSE Acc(FALSE, [a.lines EXCEPT ![Len(a.lines)] = Append(@, n.text)])
    ELSE IF n.tag \in {"h1", "h2", "h3", "h4", "h5", "h6"}
    THEN push(render_children(push(a, <<Bold>>), n.children), <<Reset>>)
    ELSE IF n.tag \in {"blockquote", "p"}
    THEN push(render_children(push(a, <<>>), n.children), <<>>)
    ELSE IF n.tag = "li"
    THEN push(render_children(push(a, <<Bullet>>), n.children), <<>>)
    ELSE IF n.tag = "br" THEN push(a, <<>>)
    ELSE render_children(a, n.children)

\* get_chapter: let mut chapter = Vec::new(); Epub::render(&mut chapter, body)
render_chapter(b) == Epub_render(Acc(FALSE, <<>>), b)

(***************************************************************************)
(* Inputs of the render call under test                                    *)
(***************************************************************************)
\* Nodes without element children: a word, white space between tags, <br/>.
Leaves == {Text(<<"a">>), Text(<<"\n", " ">>), Elem("br", <<>>)}
Tags == {"h1", "p", "li", "div"}
Blocks == {Elem(tag, kids) : tag \in Tags, kids \in SeqsUpTo(Leaves, MaxKids)}
\* The body element over its children.
Body(kids) == Elem("body", kids)

(***************************************************************************)
(* Bk                                                                      *)
(***************************************************************************)
Self ==
    [mode |-> mode, cols |-> cols, rows |-> rows, chapter |-> chapter,
     chapter_idx |-> chapter_idx, nav_idx |-> nav_idx, nav_top |-> nav_top,
     pos |-> pos, search |-> search, status |-> status]

Panic(s) == [s EXCEPT !.status = "panicked"]

toc_len == Len(epub)

Min(a, b) == IF a < b THEN a ELSE b
saturating_sub(a, b) == IF a > b THEN a - b ELSE 0

\* s.contains(q) on strings: q occurs in s as a contiguous substring.
contains(s, q) ==
    \E k \in 0..(Len(s) - Len(q)) : SubSeq(s, k + 1, k + Len(q)) = q

\* The for-loop of get_chapter: wrap every logical line and append.
RECURSIVE wrap_lines(_, _, _)
wrap_lines(ls, w, acc) ==
    IF ls = <<>> THEN WrapResult(FALSE, acc)
    ELSE LET r == wrap(Head(ls), w)
         IN  IF r.panic THEN WrapResult(TRUE, acc)
             ELSE wrap_lines(Tail(ls), w, acc \o r.lines)

get_chapter(s, idx) ==
    LET d == s.cols - (pad * 2)
        r == wrap_lines(epub[idx + 1], d % U16, <<>>)
    IN  IF idx >= toc_len THEN Panic(s)                  \* self.toc[idx]
        ELSE IF d < 0 /\ overflow_checks THEN Panic(s)   \* u16 subtraction
        ELSE IF r.panic THEN Panic(s)
        ELSE [s EXCEPT !.chapter = r.lines, !.chapter_idx = idx]

\* scroll_down that does not go on to the last chapter (len() - 2)
scroll_down_short(s, n) ==
    IF s.pos > Len(s.chapter) /\ overflow_checks
    THEN Panic(s)
    ELSE IF s.pos > Len(s.chapter) \/ s.rows < Len(s.chapter) - s.pos
    THEN [s EXCEPT !.pos = s.pos + n]
    ELSE IF s.chapter_idx < toc_len - 2
    THEN LET t == get_chapter(s, s.chapter_idx + 1)
         IN  IF t.status = "panicked" THEN t ELSE [t EXCEPT !.pos = 0]
    ELSE s

\* scroll_down that asks for the chapter after the last (<= len() - 1)
scroll_down_past_end(s, n) ==
    IF s.pos > Len(s.chapter) /\ overflow_checks
    THEN Panic(s)
    ELSE IF s.pos > Len(s.chapter) \/ s.rows < Len(s.chapter) - s.pos
    THEN [s EXCEPT !.pos = s.pos + n]
    ELSE IF s.chapter_idx <= toc_len - 1
    THEN LET t == get_chapter(s, s.chapter_idx + 1)
         IN  IF t.status = "panicked" THEN t ELSE [t EXCEPT !.pos = 0]
    ELSE s

scroll_down(s, n) ==
    IF s.pos > Len(s.chapter) /\ overflow_checks
    THEN Panic(s)                                \* chapter.len() - pos
    ELSE IF s.pos > Len(s.chapter) \/ s.rows < Len(s.chapter) - s.pos
    THEN [s EXCEPT !.pos = s.pos + n]            \* a wrapped difference is huge
    ELSE IF s.chapter_idx < toc_len - 1
    THEN LET t == get_chapter(s, s.chapter_idx + 1)
         IN  IF t.status = "panicked" THEN t ELSE [t EXCEPT !.pos = 0]
    ELSE s

\* scroll_up that lands on the last line of the previous chapter, not on its
\* last page boundary
scroll_up_to_last_line(s, n) ==
    IF s.pos > 0
    THEN [s EXCEPT !.pos = saturating_sub(s.pos, n)]
    ELSE IF s.chapter_idx > 0
    THEN LET t == get_chapter(s, s.chapter_idx - 1)
         IN  IF t.status = "panicked" THEN t
             ELSE [t EXCEPT !.pos = saturating_sub(Len(t.chapter), 1)]
    ELSE s

scroll_up(s, n) ==
    IF s.pos > 0
    THEN [s EXCEPT !.pos = saturating_sub(s.pos, n)]
    ELSE IF s.chapter_idx > 0
    THEN LET t == get_chapter(s, s.chapter_idx - 1)
         IN  IF t.status = "panicked" THEN t
             ELSE IF t.rows = 0 THEN Panic(t)    \* division by zero
             ELSE [t EXCEPT !.pos = (Len(t.chapter) \div t.rows) * t.rows]
    ELSE s

really_search(s, dir) ==
    IF dir = "Forward"
    THEN IF s.pos + 1 > Len(s.chapter) THEN Panic(s)  \* chapter[pos + 1..]
         ELSE LET found == {m \in (s.pos + 1)..(Len(s.chapter) - 1) :
                              contains(s.chapter[m + 1], s.search)}
              IN  IF found = {} THEN s
                  ELSE [s EXCEPT !.pos = CHOOSE m \in found :
                                           \A x \in found : m <= x]
    ELSE IF s.pos > Len(s.chapter) THEN Panic(s)      \* chapter[..pos]
         ELSE LET found == {m \in 0..(s.pos - 1) :
                              contains(s.chapter[m + 1], s.search)}
              IN  IF found = {} THEN s
                  ELSE [s EXCEPT !.pos = CHOOSE m \in found :
                                           \A x \in found : m >= x]

match_search(s, kc) ==
    IF kc = "Esc" THEN [s EXCEPT !.search = <<>>, !.mode = "Read"]
    ELSE IF kc = "Enter"
    THEN really_search([s EXCEPT !.mode = "Read"], "Forward")
    ELSE IF kc \in CharKeys \cup SearchChars
    THEN [s EXCEPT !.search = Append(s.search, kc)]
    ELSE s

\* match_nav whose confirm keeps the scroll position of the old chapter
match_nav_keeps_pos(s, kc) ==
    IF kc \in {"Esc", "h", "q"} THEN [s EXCEPT !.mode = "Read"]
    ELSE IF kc \in {"Enter", "Tab", "l"}
    THEN LET t == get_chapter(s, s.nav_idx)
         IN  IF t.status = "panicked" THEN t
             ELSE [t EXCEPT !.mode = "Read"]
    ELSE IF kc \in {"Down", "j"}
    THEN IF s.nav_idx < toc_len - 1
         THEN [s EXCEPT !.nav_idx = s.nav_idx + 1,
                        !.nav_top = IF s.nav_idx + 1 = s.nav_top + s.rows
                                    THEN s.nav_top + 1 ELSE s.nav_top]
         ELSE s
    ELSE IF kc \in {"Up", "k"}
    THEN IF s.nav_idx > 0
         THEN [s EXCEPT !.nav_idx = s.nav_idx - 1,
                        !.nav_top = IF s.nav_idx = s.nav_top
                                    THEN s.nav_top - 1 ELSE s.nav_top]
         ELSE s
    ELSE IF kc \in {"Home", "g"}
    THEN [s EXCEPT !.nav_idx = 0, !.nav_top = 0]
    ELSE IF kc \in {"End", "G"}
    THEN [s EXCEPT !.nav_idx = toc_len - 1,
                   !.nav_top = saturating_sub(toc_len, s.rows)]
    ELSE s

match_nav(s, kc) ==
    IF kc \in {"Esc", "h", "q"} THEN [s EXCEPT !.mode = "Read"]
    ELSE IF kc \in {"Enter", "Tab", "l"}
    THEN LET t == get_chapter(s, s.nav_idx)
         IN  IF t.status = "panicked" THEN t
             ELSE [t EXCEPT !.pos = 0, !.mode = "Read"]
    ELSE IF kc \in {"Down", "j"}
    THEN IF s.nav_idx < toc_len - 1
         THEN [s EXCEPT !.nav_idx = s.nav_idx + 1,
                        !.nav_top = IF s.nav_idx + 1 = s.nav_top + s.rows
                                    THEN s.nav_top + 1 ELSE s.nav_top]
         ELSE s
    ELSE IF kc \in {"Up", "k"}
    THEN IF s.nav_idx > 0
         THEN [s EXCEPT !.nav_idx = s.nav_idx - 1,
                        !.nav_top = IF s.nav_idx = s.nav_top
                                    THEN s.nav_top - 1 ELSE s.nav_top]
         ELSE s
    ELSE IF kc \in {"Home", "g"}
    THEN [s EXCEPT !.nav_idx = 0, !.nav_top = 0]
    ELSE IF kc \in {"End", "G"}
    THEN [s EXCEPT !.nav_idx = toc_len - 1,
                   !.nav_top = saturating_sub(toc_len, s.rows)]
    ELSE s

start_nav(s) ==
    IF s.rows = 0 /\ overflow_checks THEN Panic(s)   \* self.rows - 1
    ELSE [s EXCEPT !.nav_idx = s.chapter_idx,
                   !.nav_top = IF s.rows = 0 THEN 0
                               ELSE saturating_sub(s.chapter_idx, s.rows - 1),
                   !.mode = "Nav"]

\* match_read returns true on a quit key: the caller breaks out of the loop.
match_read_quit(kc) == kc \in QuitKeys

match_read(s, kc) ==
    IF kc \in QuitKeys THEN s
    ELSE IF kc = "Tab" THEN start_nav(s)
    ELSE IF kc \in {"F1", "?"} THEN [s EXCEPT !.mode = "Help"]
    ELSE IF kc = "/" THEN [s EXCEPT !.search = <<>>, !.mode = "Search"]
    ELSE IF kc = "N" THEN really_search(s, "Backward")
    ELSE IF kc = "n" THEN really_search(s, "Forward")
    ELSE IF kc \in {"End", "G"}
    THEN IF s.rows = 0 THEN Panic(s)
         ELSE [s EXCEPT !.pos = (Len(s.chapter) \div s.rows) * s.rows]
    ELSE IF kc \in {"Home", "g"} THEN [s EXCEPT !.pos = 0]
    ELSE IF kc = "d" THEN scroll_down(s, s.rows \div 2)
    ELSE IF kc = "u" THEN scroll_up(s, s.rows \div 2)
    ELSE IF kc \in {"Up", "k"} THEN scroll_up(s, 1)
    ELSE IF kc \in {"Left", "PageUp", "b", "h"} THEN scroll_up(s, s.rows)
    ELSE IF kc \in {"Down", "j"} THEN scroll_down(s, 1)
    ELSE IF kc \in {"Right", "PageDown", "f", "l", " "}
    THEN scroll_down(s, s.rows)
    ELSE s

\* The slice each render function takes; the drawing itself is not modelled.
render_read(s) ==
    IF s.pos > Min(s.pos + s.rows, Len(s.chapter)) THEN Panic(s) ELSE s

render_nav(s) ==
    IF s.nav_top > Min(s.nav_top + s.rows, toc_len) THEN Panic(s) ELSE s

render(s) ==
    IF s.mode = "Read" THEN render_read(s)
    ELSE IF s.mode = "Nav" THEN render_nav(s)
    ELSE s

\* help_key that hands the key on to match_read
help_key_passes(s, kc) == match_read([s EXCEPT !.mode = "Read"], kc)

\* Mode::Help => self.mode = Mode::Read
help_key(s, kc) == [s EXCEPT !.mode = "Read"]

\* on_key in which a quit key ends the loop in Nav mode as well
on_key_quits_in_nav(s, kc) ==
    IF s.mode \in {"Read", "Nav"} /\ kc \in QuitKeys
    THEN [s EXCEPT !.status = "exited"]
    ELSE IF s.mode = "Read" THEN match_read(s, kc)
    ELSE IF s.mode = "Help" THEN help_key(s, kc)
    ELSE IF s.mode = "Nav" THEN match_nav(s, kc)
    ELSE match_search(s, kc)

\* Event::Key(e) => match self.mode { ... }
on_key(s, kc) ==
    IF s.mode = "Read"
    THEN LET t == match_read(s, kc)
         IN  IF t.status = "running" /\ match_read_quit(kc)
             THEN [t EXCEPT !.status = "exited"] ELSE t
    ELSE IF s.mode = "Help" THEN help_key(s, kc)
    ELSE IF s.mode = "Nav" THEN match_nav(s, kc)
    ELSE match_search(s, kc)

\* Event::Resize(cols, rows)
on_resize(s, c, r) == get_chapter([s EXCEPT !.cols = c, !.rows = r], s.chapter_idx)

Set(s) ==
    /\ mode' = s.mode
    /\ cols' = s.cols
    /\ rows' = s.rows
    /\ chapter' = s.chapter
    /\ chapter_idx' = s.chapter_idx
    /\ nav_idx' = s.nav_idx
    /\ nav_top' = s.nav_top
    /\ pos' = s.pos
    /\ search' = s.search
    /\ status' = s.status
    /\ UNCHANGED <<epub, overflow_checks>>

(***************************************************************************)
(* Bk::new and the loop of Bk::run                                         *)
(***************************************************************************)
\* Bk::new for a book opened without a saved position (Position(path, 0, 0)).
NewBk(c, r) ==
    get_chapter([mode |-> "Read", cols |-> c, rows |-> r, chapter |-> <<>>,
                 chapter_idx |-> 0, nav_idx |-> 0, nav_top |-> 0, pos |-> 0,
                 search |-> <<>>, status |-> "running"], 0)

WrapIdle ==
    /\ text = <<>>
    /\ width = 1
    /\ wrapped = WrapResult(FALSE, <<>>)
    /\ wpc = "idle"

TocIdle ==
    /\ package = Package(<<"content.opf">>, "3.0", <<>>, <<>>)
    /\ toc = TocResult(FALSE, <<>>)
    /\ tpc = "idle"

RenderIdle ==
    /\ body = Body(<<>>)
    /\ rendered = Acc(FALSE, <<>>)
    /\ rpc = "idle"

Init ==
    /\ epub \in Books
    /\ overflow_checks \in BOOLEAN
    /\ \E c \in Cols, r \in Rows :
         LET s == NewBk(c, r)
         IN  /\ s.status = "running"
             /\ mode = s.mode /\ cols = s.cols /\ rows = s.rows
             /\ chapter = s.chapter /\ chapter_idx = s.chapter_idx
             /\ nav_idx = s.nav_idx /\ nav_top = s.nav_top /\ pos = s.pos
             /\ search = s.search /\ status = s.status
    /\ WrapIdle
    /\ TocIdle
    /\ RenderIdle

\* One iteration of the loop: render for the mode, read a key, handle it.
KeyEvent(kc) ==
    /\ status = "running"
    /\ (mode = "Search" /\ kc \in CharKeys \cup SearchChars)
         => (kc \in SearchChars /\ Len(search) < MaxSearch)
    /\ \E s \in {render(Self)} :
         \E t \in {IF s.status = "panicked" THEN s ELSE on_key(s, kc)} : Set(t)
    /\ UNCHANGED <<wrapvars, tocvars, rendervars>>

\* One iteration of the loop: render, read a resize event, handle it.
ResizeEvent(c, r) ==
    /\ status = "running"
    /\ \E s \in {render(Self)} :
         \E t \in {IF s.status = "panicked" THEN s ELSE on_resize(s, c, r)} :
            Set(t)
    /\ UNCHANGED <<wrapvars, tocvars, rendervars>>

\* One iteration of the loop: render, read a mouse event, ignore it.
MouseEvent ==
    /\ status = "running"
    /\ \E s \in {render(Self)} : Set(s)
    /\ UNCHANGED <<wrapvars, tocvars, rendervars>>

Next ==
    \/ \E kc \in Keys : KeyEvent(kc)
    \/ \E c \in Cols, r \in Rows : ResizeEvent(c, r)
    \/ MouseEvent

Spec == Init /\ [][Next]_vars

(***************************************************************************)
(* Scrolling down only, every key press being handled in the end           *)
(***************************************************************************)
ScrollDown == \E kc \in ScrollDownKeys : KeyEvent(kc)

ScrollSpec == Init /\ [][ScrollDown]_vars /\ WF_vars(ScrollDown)

(***************************************************************************)
(* wrap applied to every text and width of the bounded sets                *)
(***************************************************************************)
WrapInit ==
    /\ text \in Texts
    /\ width \in Widths
    /\ wrapped = WrapResult(FALSE, <<>>)
    /\ wpc = "call"
    /\ epub = Book1
    /\ overflow_checks = FALSE
    /\ mode = "Read" /\ cols = 2 * pad + 2 /\ rows = 1
    /\ chapter = <<>> /\ chapter_idx = 0 /\ nav_idx = 0 /\ nav_top = 0
    /\ pos = 0 /\ search = <<>> /\ status = "running"
    /\ TocIdle
    /\ RenderIdle

WrapCall ==
    /\ wpc = "call"
    /\ wrapped' = wrap(text, width)
    /\ wpc' = "done"
    /\ UNCHANGED <<text, width>>
    /\ UNCHANGED <<bkvars, tocvars, rendervars>>

WrapSpec == WrapInit /\ [][WrapCall]_vars

\* The reader is not running while a function is under test.
BkIdle ==
    /\ epub = Book1
    /\ overflow_checks = FALSE
    /\ mode = "Read" /\ cols = 2 * pad + 2 /\ rows = 1
    /\ chapter = <<>> /\ chapter_idx = 0 /\ nav_idx = 0 /\ nav_top = 0
    /\ pos = 0 /\ search = <<>> /\ status = "running"

(***************************************************************************)
(* get_toc under test: one call on every package of a bounded set          *)
(***************************************************************************)
TocInit ==
    /\ \E fp \in FullPaths, v \in Versions,
          sp \in SeqsUpTo(Idrefs, MaxSpine),
          td \in SeqsUpTo(TocEntries, MaxToc) :
            package = Package(fp, v, sp, td)
    /\ toc = TocResult(FALSE, <<>>)
    /\ tpc = "call"
    /\ BkIdle
    /\ WrapIdle
    /\ RenderIdle

TocCall ==
    /\ tpc = "call"
    /\ toc' = get_toc(package)
    /\ tpc' = "done"
    /\ UNCHANGED package
    /\ UNCHANGED <<bkvars, wrapvars, rendervars>>

TocSpec == TocInit /\ [][TocCall]_vars

(***************************************************************************)
(* render under test: one chapter load on every body of a bounded set      *)
(***************************************************************************)
RenderInit ==
    /\ \E kids \in SeqsUpTo(Leaves \cup Blocks, MaxBodyKids) : body = Body(kids)
    /\ rendered = Acc(FALSE, <<>>)
    /\ rpc = "call"
    /\ BkIdle
    /\ WrapIdle
    /\ TocIdle

RenderCall ==
    /\ rpc = "call"
    /\ rendered' = render_chapter(body)
    /\ rpc' = "done"
    /\ UNCHANGED body
    /\ UNCHANGED <<bkvars, wrapvars, tocvars>>

RenderSpec == RenderInit /\ [][RenderCall]_vars

(***************************************************************************)
(* Claims about the reader (Spec, ScrollSpec)                              *)
(***************************************************************************)
PageBoundary == (Len(chapter) \div rows) * rows

\* C1: scroll_position is an index into the wrapped lines of the loaded
\* chapter, or 0 when the chapter has no lines.
C1_PosValid ==
    status = "running" =>
        (pos < Len(chapter) \/ (chapter = <<>> /\ pos = 0))

\* C2: in Navigate mode nav_cursor and nav_top are indices into the chapter
\* list and the cursor row is inside the window of visible_rows rows that
\* starts at nav_top.
C2_NavCursorVisible ==
    (status = "running" /\ mode = "Nav") =>
        /\ nav_idx < toc_len
        /\ nav_top < toc_len
        /\ nav_top <= nav_idx
        /\ nav_idx <= nav_top + rows - 1

\* Scroll-down has nothing left to do: the last chapter is loaded and what
\* remains of it from scroll_position on fits the viewport.
AtRest ==
    /\ status = "running"
    /\ chapter_idx = toc_len - 1
    /\ Len(chapter) - pos <= rows

\* C3 as stated: scrolling down from the start of the first chapter comes to
\* rest at the final page boundary of the last chapter, so wherever
\* scroll-down has nothing left to do, scroll_position is that boundary.
C3_RestsAtPageBoundary == AtRest => pos = PageBoundary

\* C3 as amended: scrolling down repeatedly from the start of the first
\* chapter, by key presses that move at least one line, reaches the last
\* chapter at a position from which the rest of the chapter fits the
\* viewport, and stays there: every further scroll-down leaves chapter
\* index and scroll_position unchanged.
C3_RestsWhereRestFits ==
    /\ <>[]AtRest
    /\ [][AtRest => (chapter_idx' = chapter_idx /\ pos' = pos)]_vars

C3_Witness ==
    /\ AtRest
    /\ pos > 0
    /\ pos # PageBoundary

ForwardMatches ==
    {m \in (pos + 1)..(Len(chapter) - 1) : contains(chapter[m + 1], search)}
BackwardMatches ==
    {m \in 0..(Min(pos, Len(chapter)) - 1) : contains(chapter[m + 1], search)}
Least(S) == CHOOSE m \in S : \A x \in S : m <= x
Greatest(S) == CHOOSE m \in S : \A x \in S : m >= x

\* C4: in Read mode a forward search ('n') moves scroll_position to the
\* first later line that contains the query, a backward search ('N') to the
\* last earlier one, and either leaves it unchanged when there is no such
\* line; the search completes and the chapter index is unchanged.
C4_SearchNearestMatch ==
    [][ /\ (status = "running" /\ mode = "Read" /\ KeyEvent("n"))
           => /\ status' = "running"
              /\ chapter_idx' = chapter_idx
              /\ pos' = IF ForwardMatches = {} THEN pos
                        ELSE Least(ForwardMatches)
        /\ (status = "running" /\ mode = "Read" /\ KeyEvent("N"))
           => /\ status' = "running"
              /\ chapter_idx' = chapter_idx
              /\ pos' = IF BackwardMatches = {} THEN pos
                        ELSE Greatest(BackwardMatches) ]_vars

\* C5: the loop ends only on a quit key pressed in Read mode; in the other
\* modes a quit key leaves the loop running and changes nothing but the
\* mode and the search buffer.
C5_ExitOnlyByQuitInRead ==
    [][ /\ (status = "running" /\ status' = "exited")
           => (mode = "Read" /\ \E kc \in QuitKeys : KeyEvent(kc))
        /\ (status = "running" /\ mode # "Read"
              /\ \E kc \in QuitKeys : KeyEvent(kc))
           => /\ status' = "running"
              /\ UNCHANGED <<cols, rows, chapter, chapter_idx, nav_idx,
                             nav_top, pos>> ]_vars

C5_Witness ==
    /\ status = "exited"
    /\ mode = "Read"
    /\ search = <<"q">>
    /\ chapter_idx > 0

\* C6: in Help mode a key press, whatever the key, sets the mode to Read and
\* changes nothing else.
C6_HelpKeyOnlyLeavesHelp ==
    [][ (status = "running" /\ mode = "Help" /\ \E kc \in Keys : KeyEvent(kc))
        => /\ mode' = "Read"
           /\ status' = "running"
           /\ UNCHANGED <<cols, rows, chapter, chapter_idx, nav_idx, nav_top,
                          pos, search>> ]_vars

C6_Witness ==
    /\ status = "running"
    /\ mode = "Help"
    /\ pos > 0
    /\ chapter_idx > 0
    /\ search # <<>>

\* The event of this iteration reaches its handler: the frame was drawn.
Drawn == status = "running" /\ render(Self).status = "running"

\* The Bk a key press or a resize event leaves behind in the current state.
AfterKey(kc) == on_key(Self, kc)
AfterResize(c, r) == on_resize(Self, c, r)

\* The wrapped lines of chapter idx at the width left by c columns, for a
\* column count wider than the two paddings.
Loaded(idx, c) == wrap_lines(epub[idx + 1], c - (pad * 2), <<>>).lines

\* C13: the chapter index stays below the length of the chapter list:
\* scrolling down in the last chapter and scrolling up in the first never
\* ask for a chapter outside the list, and a Navigate confirm loads the
\* chapter under the cursor, which is inside the list.
C13_ChapterIdxInRange ==
    /\ chapter_idx < toc_len
    /\ (Drawn /\ mode = "Read") =>
          \A kc \in ScrollDownKeys \cup ScrollUpKeys :
             /\ AfterKey(kc).status = "running"
             /\ AfterKey(kc).chapter_idx < toc_len
    /\ (Drawn /\ mode = "Nav") =>
          \A kc \in NavConfirmKeys :
             /\ AfterKey(kc).status = "running"
             /\ AfterKey(kc).chapter_idx = nav_idx
             /\ nav_idx < toc_len

C13_Witness ==
    /\ status = "running"
    /\ mode = "Read"
    /\ toc_len = 3
    /\ chapter_idx = toc_len - 1
    /\ Len(chapter) - pos <= rows
    /\ nav_idx = 0
    /\ AfterKey("j") = Self

\* C15: a resize event stores the new columns and rows and re-wraps the
\* loaded chapter at the new width; mode and chapter index are kept, and the
\* scroll position held before the resize is not carried over.
C15_ResizeRewraps ==
    Drawn =>
       \A c \in Cols, r \in Rows :
          LET t == AfterResize(c, r)
          IN  /\ t.status = "running"
              /\ t.cols = c
              /\ t.rows = r
              /\ t.mode = mode
              /\ t.chapter_idx = chapter_idx
              /\ (c > pad * 2 => t.chapter = Loaded(chapter_idx, c))
              /\ (pos > 0 => t.pos # pos)

\* C16: in Navigate mode a confirm key loads the chapter under the cursor
\* and returns to Read at scroll position 0; a cancel key returns to Read
\* and a cursor-movement key stays in Navigate, neither changing chapter
\* index, scroll position or chapter buffer.
C16_NavConfirmCancelMove ==
    (Drawn /\ mode = "Nav") =>
       /\ \A kc \in NavConfirmKeys :
             LET t == AfterKey(kc)
             IN  /\ t.status = "running"
                 /\ t.mode = "Read"
                 /\ t.chapter_idx = nav_idx
                 /\ t.pos = 0
                 /\ (cols > pad * 2 => t.chapter = Loaded(nav_idx, cols))
       /\ \A kc \in NavCancelKeys :
             LET t == AfterKey(kc)
             IN  /\ t.status = "running"
                 /\ t.mode = "Read"
                 /\ t.chapter_idx = chapter_idx
                 /\ t.pos = pos
                 /\ t.chapter = chapter
       /\ \A kc \in NavMoveKeys :
             LET t == AfterKey(kc)
             IN  /\ t.status = "running"
                 /\ t.mode = "Nav"
                 /\ t.chapter_idx = chapter_idx
                 /\ t.pos = pos
                 /\ t.chapter = chapter

C16_Witness ==
    /\ Drawn
    /\ mode = "Nav"
    /\ pos > 0
    /\ cols > pad * 2
    /\ nav_idx # chapter_idx
    /\ AfterKey("Enter").chapter # chapter

\* C17: '/' in Read mode empties the search buffer and enters Search mode;
\* in Search mode a character key appends to the buffer and stays, Esc
\* empties the buffer and returns to Read without moving, and Enter returns
\* to Read keeping the buffer after one forward search with it.
C17_SearchModeProtocol ==
    /\ (Drawn /\ mode = "Read") =>
          LET t == AfterKey("/")
          IN  /\ t.status = "running"
              /\ t.mode = "Search"
              /\ t.search = <<>>
              /\ t.pos = pos
    /\ (Drawn /\ mode = "Search") =>
          /\ \A ch \in SearchChars :
                LET t == AfterKey(ch)
                IN  /\ t.status = "running"
                    /\ t.mode = "Search"
                    /\ t.search = Append(search, ch)
                    /\ t.pos = pos
          /\ LET t == AfterKey("Esc")
             IN  /\ t.status = "running"
                 /\ t.mode = "Read"
                 /\ t.search = <<>>
                 /\ t.pos = pos
          /\ LET t == AfterKey("Enter")
             IN  /\ t.status = "running"
                 /\ t.mode = "Read"
                 /\ t.search = search
                 /\ t.chapter_idx = chapter_idx
                 /\ t.pos = IF ForwardMatches = {} THEN pos
                            ELSE Least(ForwardMatches)

\* The number of lines each scroll-up key asks for.
ScrollUpLines(kc) ==
    IF kc = "u" THEN rows \div 2
    ELSE IF kc \in {"Up", "k"} THEN 1
    ELSE rows

\* C18: a scroll-up of n lines in Read mode moves scroll_position to
\* max(pos - n, 0) when it is positive; at 0 in a later chapter it loads the
\* previous chapter and lands on its last page boundary; at 0 in the first
\* chapter it changes nothing.  No scroll key moves the chapter index by
\* more than one.
C18_ScrollUp ==
    (Drawn /\ mode = "Read") =>
       /\ \A kc \in ScrollUpKeys :
             LET t == AfterKey(kc)
                 n == ScrollUpLines(kc)
             IN  /\ t.status = "running"
                 /\ t.mode = "Read"
                 /\ pos > 0 =>
                      /\ t.pos = IF pos > n THEN pos - n ELSE 0
                      /\ t.chapter_idx = chapter_idx
                      /\ t.chapter = chapter
                 /\ (pos = 0 /\ chapter_idx > 0) =>
                      /\ t.chapter_idx = chapter_idx - 1
                      /\ (cols > pad * 2
                            => t.chapter = Loaded(chapter_idx - 1, cols))
                      /\ t.pos = (Len(t.chapter) \div rows) * rows
                 /\ (pos = 0 /\ chapter_idx = 0) => t = Self
       /\ \A kc \in ScrollDownKeys \cup ScrollUpKeys :
             LET t == AfterKey(kc)
             IN  /\ t.chapter_idx <= chapter_idx + 1
                 /\ chapter_idx <= t.chapter_idx + 1

C18_Witness ==
    /\ Drawn
    /\ mode = "Read"
    /\ pos = 0
    /\ chapter_idx > 0
    /\ rows = 2
    /\ cols > pad * 2
    /\ AfterKey("u").chapter_idx = chapter_idx - 1
    /\ AfterKey("u").pos > 0

\* C19: every chapter load wraps at cols - 2 * pad, which is at least 1 and
\* never wraps around, whatever column count a resize event reports.
C19_WidthPositive ==
    Drawn =>
       \A c \in Cols, r \in Rows :
          /\ c - (pad * 2) >= 1
          /\ AfterResize(c, r).status = "running"
          /\ AfterResize(c, r).chapter = Loaded(chapter_idx, c)

\* C20: scroll_position never exceeds the length of the chapter buffer.
C20_PosWithinChapter == pos <= Len(chapter)

(***************************************************************************)
(* Claims about get_toc (TocSpec)                                          *)
(***************************************************************************)
\* The href of the manifest item with the given id.
Href(id) == (CHOOSE it \in {package.manifest[k] : k \in 1..Len(package.manifest)} :
                it.id = id).href

ManifestIds == {package.manifest[k].id : k \in 1..Len(package.manifest)}

\* Every spine idref is the id of a manifest item.
SpineInManifest ==
    \A k \in 1..Len(package.spine) : package.spine[k] \in ManifestIds

\* No idref occurs twice in the spine.
SpineDistinct ==
    \A j, k \in 1..Len(package.spine) :
        package.spine[j] = package.spine[k] => j = k

\* The legacy table of contents, the manifest item "ncx", is not a spine item.
NcxLeftInManifest ==
    package.version # "3.0" =>
        \A k \in 1..Len(package.spine) : package.spine[k] # "ncx"

\* One entry per spine item, in spine order, each path the item's manifest
\* href under the directory of the package document.
SpineOrderKept ==
    /\ ~toc.panic
    /\ Len(toc.chapters) = Len(package.spine)
    /\ \A i \in 1..Len(package.spine) :
         toc.chapters[i].path =
            parent(package.full_path) \o Href(package.spine[i])

EntryText(e) ==
    IF package.version = "3.0" THEN concat(e.texts) ELSE e.texts[1]

\* The entries whose target is the href of the spine item at position i
\* (0-based), unless an earlier spine item with that href used them up.
Matching(i) ==
    IF \E j \in 0..(i - 1) :
          Href(package.spine[j + 1]) = Href(package.spine[i + 1])
    THEN {}
    ELSE {package.tocdoc[k] : k \in
            {k \in 1..Len(package.tocdoc) :
                package.tocdoc[k].target = Href(package.spine[i + 1])}}

\* C12: the title of the chapter at position i is the text of the
\* table-of-contents entry whose target is that chapter's spine path, an
\* entry titling at most one chapter; without such an entry it is i in
\* decimal; entries that match no chapter add nothing to the list.  Spine
\* [c1, c2, c3] with the one entry c1: "Intro" gives "Intro", "1", "2".
C12_TitlesFromTocOrOrdinal ==
    (tpc = "done" /\ ~toc.panic) =>
        /\ Len(toc.chapters) = Len(package.spine)
        /\ \A i \in 0..(Len(package.spine) - 1) :
             IF Matching(i) = {}
             THEN toc.chapters[i + 1].title = to_string(i)
             ELSE \E e \in Matching(i) : toc.chapters[i + 1].title = EntryText(e)
        /\ (/\ package.spine = <<"c1", "c2", "c3">>
            /\ package.tocdoc = <<TocEntry(c1_xhtml, <<Intro>>)>>)
           => /\ toc.chapters[1].title = Intro
              /\ toc.chapters[2].title = <<"1">>
              /\ toc.chapters[3].title = <<"2">>

C12_Witness ==
    /\ tpc = "done"
    /\ ~toc.panic
    /\ package.version = "3.0"
    /\ package.spine = <<"c2", "c1", "c4">>
    /\ package.tocdoc = << TocEntry(<<"notes.xhtml">>, <<Part>>),
                           TocEntry(c1_xhtml, <<Part, Two>>) >>
    /\ toc.chapters[1].title = <<"0">>
    /\ toc.chapters[2].title = Part \o Two
    /\ toc.chapters[3].title = <<"2">>

(***************************************************************************)
(* Claims about render (RenderSpec)                                        *)
(***************************************************************************)
\* C14: for every markup tree the accumulator holds a line whenever a text
\* fragment that is not white space is appended, so the traversal of a
\* chapter body completes, also when the body's first such text is outside
\* every heading, paragraph, block quote and list item and follows no line
\* break.
C14_AccumulatorSeeded == rpc = "done" => ~rendered.panic

(***************************************************************************)
(* Claims about wrap (WrapSpec)                                            *)
(***************************************************************************)
RECURSIVE Join(_)
Join(ls) ==
    IF Len(ls) = 0 THEN <<>>
    ELSE IF Len(ls) = 1 THEN ls[1]
    ELSE ls[1] \o <<" ">> \o Join(Tail(ls))

\* The words of t: its maximal runs of characters other than the space.
Words(t) ==
    {SubSeq(t, i, j) : <<i, j>> \in
        {p \in (1..Len(t)) \X (1..Len(t)) :
            /\ p[1] <= p[2]
            /\ \A k \in p[1]..p[2] : t[k] # " "
            /\ (p[1] = 1 \/ t[p[1] - 1] = " ")
            /\ (p[2] = Len(t) \/ t[p[2] + 1] = " ")}}

AllWordsFit == \A wd \in Words(text) : Len(wd) <= width

\* The characters of a line before its first space.
FirstWord(l) ==
    LET sp == {k \in 1..Len(l) : l[k] = " "}
    IN  IF sp = {} THEN l
        ELSE SubSeq(l, 1, (CHOOSE k \in sp : \A x \in sp : k <= x) - 1)

\* C7: for every text and every width > 0, wrap completes and joining its
\* output lines with single spaces gives back the text.
C7_JoinRoundTrip ==
    wpc = "done" => (~wrapped.panic /\ Join(wrapped.lines) = text)

\* C8: every word longer than the width comes out whole inside one output
\* line, which overflows the width, and wrap completes; "supercalifragilistic
\* test" at width 5 has the whole word as its first line.
C8_LongWordWhole ==
    wpc = "done" =>
        /\ \A wd \in Words(text) :
             Len(wd) > width =>
                /\ ~wrapped.panic
                /\ \E k \in 1..Len(wrapped.lines) :
                     /\ wd \in Words(wrapped.lines[k])
                     /\ Len(wrapped.lines[k]) > width
        /\ (text = SupercaliTest /\ width = 5) =>
             (~wrapped.panic /\ wrapped.lines[1] = Supercali)

\* C9: a text no longer than the width comes back as one line, unchanged.
C9_ShortTextOneLine ==
    (wpc = "done" /\ Len(text) <= width) =>
        wrapped = WrapResult(FALSE, <<text>>)

C9_Witness ==
    /\ wpc = "done"
    /\ Len(text) = width
    /\ \E k \in 1..Len(text) : text[k] = " "
    /\ wrapped.lines = <<text>>

\* C10: when every word fits the width, wrap completes, no output line is
\* longer than the width, and no line could have taken the next line's
\* first word as well; "the quick brown fox" at width 10 gives
\* "the quick", "brown fox".
C10_LinesFitGreedy ==
    (wpc = "done" /\ AllWordsFit) =>
        /\ ~wrapped.panic
        /\ \A k \in 1..Len(wrapped.lines) : Len(wrapped.lines[k]) <= width
        /\ \A k \in 1..(Len(wrapped.lines) - 1) :
             Len(wrapped.lines[k]) + 1 + Len(FirstWord(wrapped.lines[k + 1]))
                > width
        /\ (text = QuickBrownFox /\ width = 10) =>
             wrapped.lines = << SubSeq(QuickBrownFox, 1, 9),
                                SubSeq(QuickBrownFox, 11, 19) >>

C10_Witness ==
    /\ wpc = "done"
    /\ text = QuickBrownFox
    /\ width = 10
    /\ Len(wrapped.lines) = 2

====
